---- MODULE Spec2Model ----
(***************************************************************************)
(* A model of backup_script.py: overlapping invocations of the script      *)
(* ("runs") that share one working directory, hence one config.json and    *)
(* one backup.lock.  Each run is the __main__ block: load the config, take *)
(* the lock, build every enabled item's job queue, run the script-wide     *)
(* pre-action, start one thread per job, join them, run the script-wide    *)
(* post-action, release the lock.                                          *)
(*                                                                         *)
(* Python strings are sequences of pieces (TLA+ strings); str.format and   *)
(* += are concatenation of the pieces, and the shell's word splitting of a *)
(* command string is ShellWords.  An optional value (getattr(..., None))   *)
(* is a record [none, v].                                                  *)
(*                                                                         *)
(* Spec is the runs; FairSpec is Spec under a fair scheduler; BuildSpec is *)
(* the building of the job queues alone, on documents of its own;          *)
(* TimingSpec is the formatting of an elapsed time.                        *)
(***************************************************************************)
EXTENDS Integers, Sequences, FiniteSets, TLC

\* Number of invocations of the script whose lifetimes may overlap.
NumRuns == 2
\* Largest number of *snar files `find` may list in a destination directory.
MaxSnar == 1
\* Largest number of threads of one run the model steps (the longest backup_list).
MaxThreads == 3

Runs == 1..NumRuns

LOCK_FILE_NAME == <<"backup.lock">>

\* datetime.date.today(), formatted by str.format
date == <<"2020-01-31">>

(***************************************************************************)
(* Python values                                                           *)
(***************************************************************************)
None == [none |-> TRUE, v |-> <<>>]

Str(s) == [none |-> FALSE, v |-> s]

\* bool(x) of an optional string: None and "" are false
Truthy(o) == ~o.none /\ o.v # <<>>

\* getattr(opt, key, None) on the namedtuple json.load built for an object
getattr(opt, key) == IF key \in opt.keys THEN Str(opt[key]) ELSE None

(***************************************************************************)
(* config.json documents                                                   *)
(***************************************************************************)
ItemKeys == {"name", "enabled", "src_path", "dest_path", "pre_action", "post_action",
             "tar_opts"}

\* One object of backup_list: the keys it has, and their values.
JsonItem(keys, name, enabled, src, dest, pre, post, opts) ==
    [keys |-> keys, name |-> name, enabled |-> enabled, src_path |-> src,
     dest_path |-> dest, pre_action |-> pre, post_action |-> post, tar_opts |-> opts]

\* pre_action "rm -f /bak/www/*snar": a hook that removes the item's state files
ItWww  == JsonItem(ItemKeys, <<"www">>, TRUE, <<"/srv/www">>, <<"/bak">>,
                   <<"rm", " ", "-f", " ", "/bak/www/*snar">>, <<"true">>, <<"v">>)
ItHome == JsonItem({"name", "enabled", "src_path", "dest_path"}, <<"home">>, TRUE,
                   <<"/home">>, <<"/bak">>, <<>>, <<>>, <<>>)
ItDb   == JsonItem({"name", "enabled", "pre_action", "post_action"}, <<"db">>, TRUE,
                   <<>>, <<>>, <<"false">>, <<"true">>, <<>>)
ItMiss == JsonItem({"name", "enabled", "pre_action", "post_action"}, <<"miss">>, TRUE,
                   <<>>, <<>>, <<"nosuchcmd">>, <<"true">>, <<>>)
ItOff  == JsonItem(ItemKeys \ {"tar_opts"}, <<"off">>, FALSE, <<"/etc">>, <<"/bak">>,
                   <<"true">>, <<"true">>, <<>>)
ItNoSrc == JsonItem({"name", "enabled", "dest_path", "pre_action"}, <<"nosrc">>, TRUE,
                    <<>>, <<"/bak">>, <<"true">>, <<>>, <<>>)
ItNoDst == JsonItem({"name", "enabled", "src_path", "dest_path", "post_action"},
                    <<"nodst">>, TRUE, <<"/var">>, <<>>, <<>>, <<"false">>, <<>>)
ItBare == JsonItem({"name", "enabled"}, <<"bare">>, TRUE, <<>>, <<>>, <<>>, <<>>, <<>>)
ItNoEnabled == JsonItem({"name", "pre_action"}, <<"bad">>, TRUE, <<>>, <<>>,
                        <<"true">>, <<>>, <<>>)
ItNoName == JsonItem({"enabled", "post_action"}, <<>>, TRUE, <<>>, <<>>, <<>>,
                     <<"true">>, <<>>)
\* tar_opts "X": an option letter that takes an argument (tar's --exclude-from)
ItExcl == JsonItem({"name", "enabled", "src_path", "dest_path", "tar_opts"}, <<"mail">>,
                   TRUE, <<"/var/mail">>, <<"/bak">>, <<>>, <<>>, <<"X">>)

\* The top-level object: the keys it has, the script-wide actions, backup_list.
JsonConfig(keys, pre, post, list) ==
    [keys |-> keys, pre_script_action |-> pre, post_script_action |-> post,
     backup_list |-> list]

Configs ==
    { JsonConfig({"pre_script_action", "post_script_action"}, <<"true">>, <<"false">>,
                 <<ItWww, ItOff>>),
      JsonConfig({"pre_script_action", "post_script_action"}, <<"nosuchcmd">>, <<"true">>,
                 <<ItMiss, ItDb>>),
      JsonConfig({"post_script_action"}, <<>>, <<"true">>,
                 <<ItNoEnabled, ItHome, ItNoSrc>>),
      JsonConfig({"pre_script_action"}, <<"true">>, <<>>,
                 <<ItNoDst, ItNoName, ItBare>>),
      JsonConfig({}, <<>>, <<>>, <<>>) }

\* Documents for the building of the archive commands alone: items with both
\* paths, with and without extra option letters.
BuildConfigs ==
    { JsonConfig({}, <<>>, <<>>, <<ItExcl, ItOff, ItWww>>),
      JsonConfig({}, <<>>, <<>>, <<ItHome, ItExcl>>),
      JsonConfig({}, <<>>, <<>>, <<ItWww, ItNoSrc, ItHome>>) }

(***************************************************************************)
(* is_valid, BackupItem, create_backup_items                               *)
(***************************************************************************)
reqd_keys == {"name", "enabled"}

\* A test that is content with any one of the required keys.
is_validAny(_item) == \E prop \in reqd_keys : prop \in _item.keys

is_valid(_item) == \A prop \in reqd_keys : prop \in _item.keys

\* BackupItem.__init__ (job_queue, which changes, is the variable job_queue)
BackupItem(opt) ==
    [name |-> opt.name, enabled |-> opt.enabled,
     src_path |-> getattr(opt, "src_path"), dest_path |-> getattr(opt, "dest_path"),
     pre_action |-> getattr(opt, "pre_action"), post_action |-> getattr(opt, "post_action"),
     tar_opts |-> getattr(opt, "tar_opts")]

is_enabled(self) == self.enabled

\* ScriptAction(pre, post, ...)
ScriptAction(j) ==
    [preaction |-> getattr(j, "pre_script_action"),
     postaction |-> getattr(j, "post_script_action")]

RECURSIVE ValidItems(_)
ValidItems(list) ==
    IF list = <<>> THEN <<>>
    ELSE (IF is_valid(Head(list)) THEN <<BackupItem(Head(list))>> ELSE <<>>)
         \o ValidItems(Tail(list))

\* create_backup_items() when config.json can be opened: (item_list, other_actions)
create_backup_items(j) ==
    [item_list |-> ValidItems(j.backup_list), other_actions |-> ScriptAction(j)]

(***************************************************************************)
(* The shell and the commands it runs                                      *)
(***************************************************************************)
RECURSIVE SplitWords(_, _)
SplitWords(s, cur) ==
    IF s = <<>> THEN (IF cur = <<>> THEN <<>> ELSE <<cur>>)
    ELSE IF Head(s) = " "
         THEN (IF cur = <<>> THEN <<>> ELSE <<cur>>) \o SplitWords(Tail(s), <<>>)
         ELSE SplitWords(Tail(s), Append(cur, Head(s)))

\* The words /bin/sh -c makes of a command string: split at blanks, no empty word.
ShellWords(cmd) == SplitWords(cmd, <<>>)

\* The exit statuses of `/bin/sh -c cmd`, which subprocess.Popen(cmd, shell=True)
\* spawns: the command's own status, and 127 from the shell when the command's
\* first word names no executable.  The commands of the configurations are the
\* shell's true (status 0) and false (status 1), rm -f (status 0), tar (0, or 2 on
\* a fatal error) and nosuchcmd, which names no executable.
ExitCodes(cmd) ==
    LET exe == Head(ShellWords(cmd))
    IN  CASE exe = <<"true">>  -> {0}
          [] exe = <<"false">> -> {1}
          [] exe = <<"rm">>    -> {0}
          [] exe = <<"tar">>   -> {0, 2}
          [] OTHER             -> {127}

\* GNU tar's option letters that take an argument.
TarArgLetters == {"b", "C", "f", "F", "g", "H", "I", "K", "L", "N", "T", "V", "X"}

\* tar's decoding of an old-style option cluster (its first argument, no dash):
\* each letter that takes an argument takes the next word not yet taken of the
\* words that follow the cluster, in the order of the letters.  The result is the
\* options, each [letter, arg] with arg <<>> or <<the word>>, and the words left.
RECURSIVE OldOptions(_, _)
OldOptions(letters, words) ==
    IF letters = <<>> THEN [opts |-> <<>>, rest |-> words]
    ELSE LET takes == Head(letters) \in TarArgLetters /\ words # <<>>
             more == OldOptions(Tail(letters), IF takes THEN Tail(words) ELSE words)
         IN  [opts |-> <<[letter |-> Head(letters),
                          arg |-> IF takes THEN <<Head(words)>> ELSE <<>>]>> \o more.opts,
              rest |-> more.rest]

\* The command line `tar <cluster> <word> ...` as tar decodes it.
TarDecoded(cmd) ==
    LET w == ShellWords(cmd)
    IN  OldOptions(w[2], SubSeq(w, 3, Len(w)))

\* The option letters of a decoded command d.
TarLetters(d) == {d.opts[i].letter : i \in 1..Len(d.opts)}

\* The words tar binds to the option letter.
TarBound(d, letter) ==
    {d.opts[i].arg[1] :
        i \in {j \in 1..Len(d.opts) : d.opts[j].letter = letter /\ d.opts[j].arg # <<>>}}

\* The word is the long option --listed-incremental=FILE.
IsListedIncremental(word) == word # <<>> /\ word[1] = "--listed-incremental="

\* The archive files tar writes (f), the snapshot files it reads and updates
\* (g, --listed-incremental=), and the members it archives (the other words).
TarArchiveFiles(d) == TarBound(d, "f")

TarSnapshotFiles(d) ==
    TarBound(d, "g")
    \cup {Tail(d.rest[i]) : i \in {j \in 1..Len(d.rest) : IsListedIncremental(d.rest[j])}}

TarMembers(d) ==
    {d.rest[i] : i \in {j \in 1..Len(d.rest) : ~IsListedIncremental(d.rest[j])}}

\* How many *snar files there may be once the command has exited with status rc,
\* when there were n: rm -f of the state files leaves none; a tar that succeeds
\* writes its snapshot files, a new *snar file among them or not (the file of the
\* day may be there already); the other commands touch none.
SnarAfter(cmd, rc, n) ==
    LET exe == Head(ShellWords(cmd))
    IN  CASE exe = <<"rm">> -> {0}
          [] exe = <<"tar">> /\ rc = 0
                 /\ \E f \in TarSnapshotFiles(TarDecoded(cmd)) : f[Len(f)] = ".snar"
             -> IF n = 0 THEN {1} ELSE {n, IF n < MaxSnar THEN n + 1 ELSE n}
          [] OTHER -> {n}

\* The lines `find <dir> -name *snar` prints when <dir> holds n state files.
FindOutput(dir, n) == [k \in 1..n |-> dir \o <<"/", "state", ToString(k), ".snar">>]

(***************************************************************************)
(* BackupItem.queue_items                                                  *)
(***************************************************************************)
full_destination_path(self) == self.dest_path.v \o <<"/">> \o self.name

file_name(self, full_backup) ==
    IF full_backup THEN <<"full-">> \o self.name \o <<"-">> \o date \o <<".tar.gz">>
    ELSE <<"i.">> \o self.name \o <<"-">> \o date \o <<".tar.gz">>

\* output.split('\n')[0] is "" when find printed nothing
snar_file(self, full_backup, found) ==
    IF full_backup
    THEN full_destination_path(self) \o <<"/">> \o self.name \o <<"-">> \o date \o <<".snar">>
    ELSE IF found = <<>> THEN <<>> ELSE found[1]

dest_path_and_file(self, full_backup) ==
    full_destination_path(self) \o <<"/">> \o file_name(self, full_backup)

tar_opts(self, full_backup) ==
    <<"z", "c", "P", "f">>
    \o (IF Truthy(self.tar_opts) THEN self.tar_opts.v ELSE <<>>)
    \o (IF full_backup THEN <<>> ELSE <<"g">>)

\* A full-backup command that names the source where the archive file belongs.
_built_cmdSourceFirst(self, full_backup, found) ==
    IF full_backup
    THEN self.src_path.v \o <<" ">> \o <<"--listed-incremental=">>
         \o snar_file(self, full_backup, found) \o <<" ">>
         \o dest_path_and_file(self, full_backup)
    ELSE snar_file(self, full_backup, found) \o <<" ">>
         \o dest_path_and_file(self, full_backup) \o <<" ">> \o self.src_path.v

_built_cmd(self, full_backup, found) ==
    IF full_backup
    THEN dest_path_and_file(self, full_backup) \o <<" ">> \o <<"--listed-incremental=">>
         \o snar_file(self, full_backup, found) \o <<" ">> \o self.src_path.v
    ELSE snar_file(self, full_backup, found) \o <<" ">>
         \o dest_path_and_file(self, full_backup) \o <<" ">> \o self.src_path.v

tar_cmd(self, full_backup, found) ==
    <<"tar">> \o <<" ">> \o tar_opts(self, full_backup) \o <<" ">>
    \o _built_cmd(self, full_backup, found)

\* A test with `or` for `and`.
has_pathsEither(self) == Truthy(self.src_path) \/ Truthy(self.dest_path)

has_paths(self) == Truthy(self.src_path) /\ Truthy(self.dest_path)

\* What queue_items has appended when it reaches os.makedirs (lines 89-90).
queue_pre(self) == IF Truthy(self.pre_action) THEN <<self.pre_action.v>> ELSE <<>>

\* What a queue_items that returns appends to self.job_queue; found is what find
\* printed (read in incremental mode only).
queue_items(self, full_backup, found) ==
    queue_pre(self)
    \o (IF has_paths(self) THEN <<tar_cmd(self, full_backup, found)>> ELSE <<>>)
    \o (IF Truthy(self.post_action) THEN <<self.post_action.v>> ELSE <<>>)

(***************************************************************************)
(* State                                                                   *)
(***************************************************************************)
VARIABLES
    config,       \* the document in config.json
    full,         \* args.full, the --full flag the runs are invoked with
    nsnar,        \* how many *snar files each destination directory holds now
    lock_file,    \* p.exists(LOCK_FILE_NAME)
    sh_ok,        \* /bin/sh can be executed: Popen(..., shell=True) raises
                  \* FileNotFoundError exactly when it cannot
    pc,           \* pc[r]: where run r's main thread is
    ret,          \* ret[r]: what create_lock_file returned to run r
    item_ix,      \* item_ix[r]: how many of backup_items the loop of line 258 has taken
    job_queue,    \* job_queue[r][i]: the job_queue of run r's i-th BackupItem
    jobs,         \* jobs[r]: the items (positions in backup_items) appended to jobs
    threads,      \* threads[r]: the threads started, one record per thread
    script_proc,  \* script_proc[r]: the script-wide subprocess run r waits for
    log,          \* log[r]: the records run r has logged
    exit_status,  \* exit_status[r]: <<>> while run r lives, else <<its exit status>>
    time_taken,   \* timer() - start_time, a float: here in ticks (parts of a second)
    time_string   \* what strftime made of time_taken, and where (in start, in __main__)

\* The variables of the duration formatting, which no step of a run reads.
timing == <<time_taken, time_string>>

vars == <<config, full, nsnar, lock_file, sh_ok, pc, ret, item_ix, job_queue, jobs, threads,
          script_proc, log, exit_status, timing>>

\* backup_items, script_actions (line 220), the same for every run: one config.json
backup_items == create_backup_items(config).item_list

script_actions == create_backup_items(config).other_actions

LogRecord(level, msg, arg) == [level |-> level, msg |-> msg, arg |-> arg]

\* threading.Thread(target=job.start): the state of BackupItem.start in that thread.
\*   pos       how many jobs the for loop has taken: _job is job_queue[pos]
\*   running   the positions whose subprocess has been spawned and has not exited
\*   started   the positions Popen has spawned, in order
\*   returncode  <<>>, or <<proc.returncode>> of the last process waited for
\*   raised    the FileNotFoundError handler of line 154 has run
NewThread(i) ==
    [item |-> i, pos |-> 0, running |-> {}, started |-> <<>>, returncode |-> <<>>,
     raised |-> FALSE]

\* The thread's start() has returned.
Finished(r, k) ==
    LET th == threads[r][k]
    IN  th.running = {} /\ (th.raised \/ th.pos = Len(job_queue[r][th.item]))

\* The document names a destination directory (nsnar counts the files in those).
HasDestination(j) ==
    \E i \in 1..Len(j.backup_list) : Truthy(getattr(j.backup_list[i], "dest_path"))

Init ==
    /\ config \in Configs
    /\ full \in BOOLEAN
    /\ nsnar \in (IF HasDestination(config) THEN 0..MaxSnar ELSE {0})
    /\ lock_file \in BOOLEAN
    /\ sh_ok \in BOOLEAN
    /\ pc = [r \in Runs |-> "start"]
    /\ ret = [r \in Runs |-> "unset"]
    /\ item_ix = [r \in Runs |-> 0]
    /\ job_queue = [r \in Runs |-> <<>>]
    /\ jobs = [r \in Runs |-> <<>>]
    /\ threads = [r \in Runs |-> <<>>]
    /\ script_proc = [r \in Runs |-> "none"]
    /\ log = [r \in Runs |-> {}]
    /\ exit_status = [r \in Runs |-> <<>>]
    /\ time_taken = 0
    /\ time_string = [site |-> "none", text |-> <<>>]

Goto(r, label) == pc' = [pc EXCEPT ![r] = label]

Log(r, level, msg, arg) == log' = [log EXCEPT ![r] = @ \cup {LogRecord(level, msg, arg)}]

\* The process ends with the given status.
Exit(r, label, status) ==
    /\ Goto(r, label)
    /\ exit_status' = [exit_status EXCEPT ![r] = <<status>>]

(***************************************************************************)
(* __main__, lines 220-242: the configuration and the log                  *)
(***************************************************************************)
\* create_backup_items() opens config.json and returns (item_list, other_actions),
\* every BackupItem with an empty job_queue; log.basicConfig succeeds (the console,
\* or a file that can be written); backup_items is not None.
LoadConfig(r) ==
    /\ pc[r] = "start"
    /\ job_queue' = [job_queue EXCEPT ![r] = [i \in 1..Len(backup_items) |-> <<>>]]
    /\ Goto(r, "lock_check")
    /\ UNCHANGED <<timing, config, full, nsnar, sh_ok, lock_file, ret, item_ix, jobs, threads,
                   script_proc, log, exit_status>>

\* config.json is missing: create_backup_items() logs and returns None, and the
\* tuple assignment of line 220 raises TypeError, which nothing catches.
LoadConfigMissing(r) ==
    /\ pc[r] = "start"
    /\ Log(r, "error", "Err! could not load the config.json file", <<"config.json">>)
    /\ Exit(r, "crashed", 1)
    /\ UNCHANGED <<timing, config, full, nsnar, sh_ok, lock_file, ret, item_ix, job_queue, jobs,
                   threads, script_proc>>

\* The config is loaded and log.basicConfig raises PermissionError: print, quit(0).
SetupLoggingDenied(r) ==
    /\ pc[r] = "start"
    /\ job_queue' = [job_queue EXCEPT ![r] = [i \in 1..Len(backup_items) |-> <<>>]]
    /\ Exit(r, "exited", 0)
    /\ UNCHANGED <<timing, config, full, nsnar, sh_ok, lock_file, ret, item_ix, jobs, threads,
                   script_proc, log>>

(***************************************************************************)
(* create_lock_file, release_lock_file                                     *)
(***************************************************************************)
\* A create_lock_file that never looks at the marker.
LockCheckResultIgnoring(exists) == "create"

\* What create_lock_file does after p.exists(LOCK_FILE_NAME) returned `exists`.
LockCheckResult(exists) == IF exists THEN "FileExistsError" ELSE "create"

\* Line 188, and for a lock that exists lines 189 and 249-252: log, sys.exit().
CreateLockCheck(r) ==
    /\ pc[r] = "lock_check"
    /\ IF LockCheckResult(lock_file) = "FileExistsError"
       THEN /\ ret' = [ret EXCEPT ![r] = "FileExistsError"]
            /\ Log(r, "error", "Backup is still running", LOCK_FILE_NAME)
            /\ Exit(r, "exited", 0)
       ELSE /\ Goto(r, "lock_create")
            /\ UNCHANGED <<ret, log, exit_status>>
    /\ UNCHANGED <<timing, config, full, nsnar, sh_ok, lock_file, item_ix, job_queue, jobs, threads,
                   script_proc>>

\* open(LOCK_FILE_NAME, 'a').close(): the file exists afterwards, whether or not it
\* did before.
LockAfterOpen(exists) == TRUE

\* Lines 191-192, then line 254.
CreateLockOpen(r) ==
    /\ pc[r] = "lock_create"
    /\ lock_file' = LockAfterOpen(lock_file)
    /\ ret' = [ret EXCEPT ![r] = "None"]
    /\ Goto(r, IF backup_items = <<>> THEN "pre" ELSE "queue")
    /\ UNCHANGED <<timing, config, full, nsnar, sh_ok, item_ix, job_queue, jobs, threads, script_proc,
                   log, exit_status>>

\* A release_lock_file that removes nothing.
LockAfterRemoveKeeps(exists) == exists

\* os.remove(LOCK_FILE_NAME): the file is gone afterwards; FileNotFoundError is caught.
LockAfterRemove(exists) == FALSE

(***************************************************************************)
(* __main__, lines 258-267: the job queues                                 *)
(***************************************************************************)
\* The item the loop of line 258 takes next.
item(r) == backup_items[item_ix[r] + 1]

\* A loop that is left after its first item.
AfterItemLeavesLoop(r) ==
    /\ item_ix' = [item_ix EXCEPT ![r] = @ + 1]
    /\ Goto(r, "pre")

\* The loop of line 258 goes on to its next item, or is done.
AfterItem(r) ==
    /\ item_ix' = [item_ix EXCEPT ![r] = @ + 1]
    /\ Goto(r, IF item_ix[r] + 1 = Len(backup_items) THEN "pre" ELSE "queue")

\* A loop that skips no item.
SkippedNever(self) == FALSE

\* Whether the loop of line 258 skips the item (lines 259-261).
Skipped(self) == ~is_enabled(self)

\* Lines 259-261: the item is not enabled.
QueueSkip(r) ==
    /\ pc[r] = "queue"
    /\ Skipped(item(r))
    /\ Log(r, "warning", "is not enabled, skipping", item(r).name)
    /\ AfterItem(r)
    /\ UNCHANGED <<timing, config, full, nsnar, sh_ok, lock_file, ret, job_queue, jobs, threads,
                   script_proc, exit_status>>

\* Lines 264-267: queue_items returns (the destination directory exists or
\* os.makedirs made it; find printed the state files there), the item joins jobs.
QueueItems(r) ==
    /\ pc[r] = "queue"
    /\ ~Skipped(item(r))
    /\ LET self == item(r)
           found == IF has_paths(self) THEN FindOutput(full_destination_path(self), nsnar)
                    ELSE <<>>
       IN  job_queue' = [job_queue EXCEPT ![r][item_ix[r] + 1] =
                             @ \o queue_items(self, full, found)]
    /\ jobs' = [jobs EXCEPT ![r] = Append(@, item_ix[r] + 1)]
    /\ AfterItem(r)
    /\ UNCHANGED <<timing, config, full, nsnar, sh_ok, lock_file, ret, threads, script_proc, log,
                   exit_status>>

\* Line 264 when os.makedirs (line 96) raises, the directory being absent and not
\* creatable: nothing catches the OSError and the process ends with a traceback.
\* (A directory that holds state files exists.)
QueueItemsRaises(r) ==
    /\ pc[r] = "queue"
    /\ ~Skipped(item(r))
    /\ has_paths(item(r))
    /\ nsnar = 0
    /\ job_queue' = [job_queue EXCEPT ![r][item_ix[r] + 1] = @ \o queue_pre(item(r))]
    /\ Exit(r, "crashed", 1)
    /\ UNCHANGED <<timing, config, full, nsnar, sh_ok, lock_file, ret, item_ix, jobs, threads,
                   script_proc, log>>

(***************************************************************************)
(* __main__, lines 269-289: the script-wide actions                        *)
(***************************************************************************)
\* The action of the phase ("pre" or "post") and where the run goes after it.
ScriptCmd(phase) ==
    IF phase = "pre" THEN script_actions.preaction ELSE script_actions.postaction

AfterPhase(phase) == IF phase = "pre" THEN "threads" ELSE "release"

\* Lines 269 and 284: no action is configured.
ScriptSkip(r, phase) ==
    /\ pc[r] = phase
    /\ ~Truthy(ScriptCmd(phase))
    /\ Goto(r, AfterPhase(phase))
    /\ UNCHANGED <<timing, config, full, nsnar, sh_ok, lock_file, ret, item_ix, job_queue, jobs, threads,
                   script_proc, log, exit_status>>

\* Lines 271 and 286: Popen spawns /bin/sh -c <action>.
ScriptSpawn(r, phase) ==
    /\ pc[r] = phase
    /\ Truthy(ScriptCmd(phase))
    /\ sh_ok
    /\ script_proc' = [script_proc EXCEPT ![r] = phase]
    /\ Goto(r, IF phase = "pre" THEN "pre_wait" ELSE "post_wait")
    /\ UNCHANGED <<timing, config, full, nsnar, sh_ok, lock_file, ret, item_ix, job_queue, jobs, threads,
                   log, exit_status>>

\* Lines 273-274 and 288-289: Popen raises FileNotFoundError (no /bin/sh to run).
ScriptRaises(r, phase) ==
    /\ pc[r] = phase
    /\ Truthy(ScriptCmd(phase))
    /\ ~sh_ok
    /\ Log(r, "error", "Failed to run the pre_action_script command", <<>>)
    /\ Goto(r, AfterPhase(phase))
    /\ UNCHANGED <<timing, config, full, nsnar, sh_ok, lock_file, ret, item_ix, job_queue, jobs, threads,
                   script_proc, exit_status>>

\* Lines 272 and 287: wait() returns, whatever the exit status.
ScriptWait(r, phase) ==
    /\ pc[r] = (IF phase = "pre" THEN "pre_wait" ELSE "post_wait")
    /\ script_proc[r] = phase
    /\ script_proc' = [script_proc EXCEPT ![r] = "none"]
    /\ Goto(r, AfterPhase(phase))
    /\ UNCHANGED <<timing, config, full, nsnar, sh_ok, lock_file, ret, item_ix, job_queue, jobs, threads,
                   log, exit_status>>

(***************************************************************************)
(* __main__, lines 276-282: the threads; BackupItem.start                  *)
(***************************************************************************)
\* Lines 276-279: one more thread, for the next job.
Launch(r) ==
    /\ pc[r] = "threads"
    /\ Len(threads[r]) < Len(jobs[r])
    /\ threads' = [threads EXCEPT ![r] = Append(@, NewThread(jobs[r][Len(@) + 1]))]
    /\ UNCHANGED <<timing, config, full, nsnar, sh_ok, lock_file, pc, ret, item_ix, job_queue, jobs,
                   script_proc, log, exit_status>>

\* A start() that does not wait for the process it spawned.
CanSpawnNoWait(th, q) == ~th.raised /\ th.pos < Len(q)

\* The for loop of line 138 takes its next job: the last proc.wait() has returned,
\* no exception has ended the loop, and a job is left.
CanSpawn(th, q) == th.running = {} /\ ~th.raised /\ th.pos < Len(q)

\* Line 141: Popen spawns /bin/sh -c <_job>.
StepSpawn(r, k) ==
    /\ k \in 1..Len(threads[r])
    /\ LET th == threads[r][k]
       IN  /\ CanSpawn(th, job_queue[r][th.item])
           /\ sh_ok
           /\ threads' = [threads EXCEPT ![r][k] =
                              [th EXCEPT !.pos = @ + 1,
                                         !.running = @ \cup {th.pos + 1},
                                         !.started = Append(@, th.pos + 1)]]
    /\ UNCHANGED <<timing, config, full, nsnar, sh_ok, lock_file, pc, ret, item_ix, job_queue, jobs,
                   script_proc, log, exit_status>>

\* Lines 154-155: Popen raises FileNotFoundError (no /bin/sh to run); the handler
\* logs the job and start() returns.
StepRaises(r, k) ==
    /\ k \in 1..Len(threads[r])
    /\ LET th == threads[r][k]
       IN  /\ CanSpawn(th, job_queue[r][th.item])
           /\ ~sh_ok
           /\ threads' = [threads EXCEPT ![r][k] =
                              [th EXCEPT !.pos = @ + 1, !.raised = TRUE]]
           /\ Log(r, "error", "Could not execute", job_queue[r][th.item][th.pos + 1])
    /\ UNCHANGED <<timing, config, full, nsnar, sh_ok, lock_file, pc, ret, item_ix, job_queue, jobs,
                   script_proc, exit_status>>

\* A start() that ends its loop when a process exits with a non-zero status.
AfterWaitStopsOnFailure(th, p, rc) ==
    [th EXCEPT !.running = @ \ {p}, !.returncode = <<rc>>, !.raised = (rc # 0)]

\* The thread after proc.wait() returned for the process of position p with exit
\* status rc: lines 143-152 read no exit status, and the loop goes on.
AfterWait(th, p, rc) == [th EXCEPT !.running = @ \ {p}, !.returncode = <<rc>>]

\* Line 142: the subprocess exits, having done to the state files what its
\* command does, and proc.wait() returns.
StepWait(r, k) ==
    /\ k \in 1..Len(threads[r])
    /\ LET th == threads[r][k]
       IN  \E p \in th.running :
               \E rc \in ExitCodes(job_queue[r][th.item][p]) :
                   /\ threads' = [threads EXCEPT ![r][k] = AfterWait(th, p, rc)]
                   /\ nsnar' \in SnarAfter(job_queue[r][th.item][p], rc, nsnar)
    /\ UNCHANGED <<timing, config, full, sh_ok, lock_file, pc, ret, item_ix, job_queue, jobs,
                   script_proc, log, exit_status>>

\* A main thread that starts the threads and joins none.
AllJoinedNoJoin(r) == Len(threads[r]) = Len(jobs[r])

\* Every thread of threads has been started and join() returns for each.
AllJoined(r) ==
    /\ Len(threads[r]) = Len(jobs[r])
    /\ \A k \in 1..Len(threads[r]) : Finished(r, k)

\* Lines 281-282.
Join(r) ==
    /\ pc[r] = "threads"
    /\ AllJoined(r)
    /\ Goto(r, "post")
    /\ UNCHANGED <<timing, config, full, nsnar, sh_ok, lock_file, ret, item_ix, job_queue, jobs, threads,
                   script_proc, log, exit_status>>

(***************************************************************************)
(* __main__, lines 291-305: the end of the run                             *)
(***************************************************************************)
\* log "Script finished", release_lock_file(), and the process ends.
Release(r) ==
    /\ pc[r] = "release"
    /\ lock_file' = LockAfterRemove(lock_file)
    /\ log' = [log EXCEPT ![r] = @ \cup
                  { LogRecord("info", "Script finished", <<>>),
                    IF lock_file THEN LogRecord("debug", "Lock file removed", <<>>)
                    ELSE LogRecord("debug", "Could not find lock file to release", <<>>) }]
    /\ Exit(r, "done", 0)
    /\ UNCHANGED <<timing, config, full, nsnar, sh_ok, ret, item_ix, job_queue, jobs, threads,
                   script_proc>>

Next ==
    \E r \in Runs :
        \/ LoadConfig(r)
        \/ LoadConfigMissing(r)
        \/ SetupLoggingDenied(r)
        \/ CreateLockCheck(r)
        \/ CreateLockOpen(r)
        \/ QueueSkip(r)
        \/ QueueItems(r)
        \/ QueueItemsRaises(r)
        \/ \E phase \in {"pre", "post"} :
               \/ ScriptSkip(r, phase)
               \/ ScriptSpawn(r, phase)
               \/ ScriptRaises(r, phase)
               \/ ScriptWait(r, phase)
        \/ Launch(r)
        \/ \E k \in 1..MaxThreads :
               \/ StepSpawn(r, k)
               \/ StepRaises(r, k)
               \/ StepWait(r, k)
        \/ Join(r)
        \/ Release(r)

Spec == Init /\ [][Next]_vars

\* The steps of run r's main thread, and the steps of its k-th thread.
MainStep(r) ==
    \/ LoadConfig(r) \/ LoadConfigMissing(r) \/ SetupLoggingDenied(r)
    \/ CreateLockCheck(r) \/ CreateLockOpen(r)
    \/ QueueSkip(r) \/ QueueItems(r) \/ QueueItemsRaises(r)
    \/ \E phase \in {"pre", "post"} :
           ScriptSkip(r, phase) \/ ScriptSpawn(r, phase) \/ ScriptRaises(r, phase)
           \/ ScriptWait(r, phase)
    \/ Launch(r) \/ Join(r) \/ Release(r)

ThreadStep(r, k) == StepSpawn(r, k) \/ StepRaises(r, k) \/ StepWait(r, k)

\* The runs under a fair scheduler and with commands that all exit: a main thread
\* that can take a step takes one, and so does every thread (a thread that waits
\* for a subprocess can take its step when the subprocess exits).
FairSpec ==
    /\ Spec
    /\ \A r \in Runs :
           /\ WF_vars(MainStep(r))
           /\ \A k \in 1..MaxThreads : WF_vars(ThreadStep(r, k))

(***************************************************************************)
(* Duration formatting: BackupItem.start lines 144-150, __main__ 291-297   *)
(***************************************************************************)
\* The resolution of the model's clock: ticks per second.
TicksPerSecond == 10

\* Elapsed times up to MaxSeconds are all tried, tick by tick.
MaxSeconds == 3700

\* The limit of lines 148 and 294, in seconds.
HourLimit == 3599

\* Some elapsed times of a day and more, in seconds.
LongTimes == {7325, 86399, 86400, 90061}

Elapsed == (0..(MaxSeconds * TicksPerSecond)) \cup {s * TicksPerSecond : s \in LongTimes}

\* A comparison that takes the limit itself for more than the limit.
time_formatFromLimit(t) ==
    IF t >= HourLimit * TicksPerSecond
    THEN <<"%H", " hrs ", "%M", " mins ", "%S", " seconds">>
    ELSE <<"%M", " mins ", "%S", " seconds">>

\* time_format after the test `if time_taken > 3599`.
time_format(t) ==
    IF t > HourLimit * TicksPerSecond
    THEN <<"%H", " hrs ", "%M", " mins ", "%S", " seconds">>
    ELSE <<"%M", " mins ", "%S", " seconds">>

\* time.gmtime(t): the fraction of a second is dropped, the days are not kept here.
gmtime(t) ==
    LET secs == t \div TicksPerSecond
    IN  [tm_hour |-> (secs \div 3600) % 24, tm_min |-> (secs \div 60) % 60,
         tm_sec |-> secs % 60]

\* %H, %M, %S: two decimal digits.
TwoDigits(n) == IF n < 10 THEN "0" \o ToString(n) ELSE ToString(n)

\* time.strftime(format, tm), piece by piece.
strftime(format, tm) ==
    [n \in 1..Len(format) |->
        CASE format[n] = "%H" -> TwoDigits(tm.tm_hour)
          [] format[n] = "%M" -> TwoDigits(tm.tm_min)
          [] format[n] = "%S" -> TwoDigits(tm.tm_sec)
          [] OTHER -> format[n]]

\* No run has taken a step.
NotStarted ==
    /\ pc = [r \in Runs |-> "start"]
    /\ ret = [r \in Runs |-> "unset"]
    /\ item_ix = [r \in Runs |-> 0]
    /\ job_queue = [r \in Runs |-> <<>>]
    /\ jobs = [r \in Runs |-> <<>>]
    /\ threads = [r \in Runs |-> <<>>]
    /\ script_proc = [r \in Runs |-> "none"]
    /\ log = [r \in Runs |-> {}]
    /\ exit_status = [r \in Runs |-> <<>>]

\* No run is under way: the state the formatting is looked at in.
NoRun ==
    /\ config = JsonConfig({}, <<>>, <<>>, <<>>)
    /\ full = FALSE /\ nsnar = 0 /\ lock_file = FALSE /\ sh_ok = TRUE
    /\ NotStarted

TimingInit ==
    /\ NoRun
    /\ time_taken \in Elapsed
    /\ time_string = [site |-> "none", text |-> <<>>]

\* Lines 144-150: cmd_time, the time a step took.
StepTiming ==
    /\ time_string.site = "none"
    /\ time_string' = [site |-> "start",
                       text |-> strftime(time_format(time_taken), gmtime(time_taken))]
    /\ UNCHANGED <<config, full, nsnar, lock_file, sh_ok, pc, ret, item_ix, job_queue, jobs,
                   threads, script_proc, log, exit_status, time_taken>>

\* Lines 291-297: elapsed_time, the time the script took.
ScriptTiming ==
    /\ time_string.site = "none"
    /\ time_string' = [site |-> "__main__",
                       text |-> strftime(time_format(time_taken), gmtime(time_taken))]
    /\ UNCHANGED <<config, full, nsnar, lock_file, sh_ok, pc, ret, item_ix, job_queue, jobs,
                   threads, script_proc, log, exit_status, time_taken>>

TimingNext == StepTiming \/ ScriptTiming

TimingSpec == TimingInit /\ [][TimingNext]_vars

(***************************************************************************)
(* The building of the job queues alone: __main__ up to line 267           *)
(***************************************************************************)
BuildInit ==
    /\ config \in BuildConfigs
    /\ full \in BOOLEAN
    /\ nsnar \in 0..MaxSnar
    /\ lock_file \in BOOLEAN
    /\ sh_ok = TRUE
    /\ NotStarted
    /\ time_taken = 0
    /\ time_string = [site |-> "none", text |-> <<>>]

\* The steps of the runs up to the end of the loop of line 258.
BuildNext ==
    \E r \in Runs :
        \/ LoadConfig(r)
        \/ CreateLockCheck(r)
        \/ CreateLockOpen(r)
        \/ QueueSkip(r)
        \/ QueueItems(r)
        \/ QueueItemsRaises(r)

BuildSpec == BuildInit /\ [][BuildNext]_vars

(***************************************************************************)
(* Properties                                                              *)
(***************************************************************************)
\* Run r is past create_lock_file and still at work: building job queues, running
\* a script-wide action, running its threads, or about to release.
AtWork(r) == pc[r] \in {"queue", "pre", "pre_wait", "threads", "post", "post_wait", "release"}

\* create_lock_file returned to run r: None (the lock is taken), FileExistsError.
Acquired(r) == ret[r] = "None"

Refused(r) == ret[r] = "FileExistsError"

\* Run r's main thread takes a step from the label.
Leaves(r, label) == pc[r] = label /\ pc'[r] # label

\* Run r has logged an error with the message.
LoggedError(r, msg) == \E rec \in log[r] : rec.level = "error" /\ rec.msg = msg

ThreadIx(r) == 1..Len(threads[r])

\* The job queue thread k of run r works on.
QueueOf(r, k) == job_queue[r][threads[r][k].item]

\* C1: of two runs that use the same lock marker at most one is past lock
\* acquisition at any time: no state has both at work (building job queues, running
\* script-wide actions or item steps) with the lock acquired.
C1_MutualExclusion ==
    \A r1, r2 \in Runs : r1 # r2 => ~(AtWork(r1) /\ AtWork(r2))

\* C2 (state part): a run that found the marker has ended, has logged the error,
\* and has built no job queue, started no thread and no script-wide action.
RefusedRunDidNothing(r) ==
    /\ pc[r] = "exited"
    /\ exit_status[r] # <<>>
    /\ LogRecord("error", "Backup is still running", LOCK_FILE_NAME) \in log[r]
    /\ jobs[r] = <<>>
    /\ \A i \in DOMAIN job_queue[r] : job_queue[r][i] = <<>>
    /\ threads[r] = <<>>
    /\ script_proc[r] = "none"

\* C2 (step part): a run whose existence check finds the marker is refused and
\* leaves the marker; and only the release of a run that acquired the lock ever
\* removes the marker, so it stays for every later run.
MarkerOutlivesRefusal ==
    /\ \A r \in Runs : (Leaves(r, "lock_check") /\ lock_file) => (Refused(r)' /\ lock_file')
    /\ (lock_file /\ ~lock_file') => \E r \in Runs : Acquired(r) /\ Leaves(r, "release")

\* C2: when the lock marker exists as a run checks for it, that run builds no job
\* queue, runs no script-wide action and no item step, logs an error, exits, and
\* leaves the marker in place; the same holds for every later run, the marker
\* being removed by nothing but the release of a run that acquired it.
C2_LockedRunDoesNothing ==
    /\ [](\A r \in Runs : Refused(r) => RefusedRunDidNothing(r))
    /\ [][MarkerOutlivesRefusal]_vars

\* C2 witness: a run crashed with the lock taken, and the next run was refused.
C2_Witness ==
    \E r1, r2 \in Runs :
        /\ Acquired(r1) /\ pc[r1] = "crashed"
        /\ Refused(r2) /\ pc[r2] = "exited"
        /\ lock_file

\* C3 (one step of run r through the Lock Guard).
LockGuardStep(r) ==
    /\ Leaves(r, "lock_check") =>
           IF lock_file
           THEN ret'[r] = "FileExistsError" /\ lock_file'
           ELSE pc'[r] = "lock_create" /\ ret'[r] = ret[r] /\ ~lock_file'
    /\ Leaves(r, "lock_create") => (ret'[r] = "None" /\ lock_file')
    /\ Leaves(r, "release") =>
           /\ ~lock_file'
           /\ pc'[r] = "done" /\ exit_status'[r] = <<0>>
           /\ \A rec \in log'[r] \ log[r] : rec.level # "error"

\* C3: acquire on an unlocked guard creates the marker and returns ok (None); an
\* acquire that finds the marker returns already-locked (FileExistsError) and leaves
\* it; release removes the marker when there is one, and with none changes nothing
\* and raises no error; nothing else changes the marker.
C3_LockGuardStateMachine ==
    [][/\ \A r \in Runs : LockGuardStep(r)
       /\ (lock_file' # lock_file) =>
              \E r \in Runs : Leaves(r, "lock_create") \/ Leaves(r, "release")]_vars

\* C3 witness: one run acquired, a second acquire in between was refused, and the
\* first run's release removed the marker.
C3_Witness ==
    \E r1, r2 \in Runs :
        /\ Acquired(r1) /\ pc[r1] = "done"
        /\ Refused(r2)
        /\ ~lock_file

\* The positions 1, 2, ..., in order, each once.
InQueueOrder(started) == \A j \in 1..Len(started) : started[j] = j

\* C4: within one item the steps are started in queue order, each at most once,
\* and a step is started only after the previous step's subprocess has exited: in
\* every state, whatever the other threads do, the started steps of a thread are the
\* positions 1, 2, ... of its queue in order, and the only subprocess that may be
\* running is that of the step started last.
C4_StepsSequential ==
    \A r \in Runs : \A k \in ThreadIx(r) :
        LET th == threads[r][k]
        IN  /\ InQueueOrder(th.started)
            /\ Len(th.started) <= Len(QueueOf(r, k))
            /\ Cardinality(th.running) <= 1
            /\ \A p \in th.running : th.started # <<>> /\ p = th.started[Len(th.started)]

\* C4 witness: two threads of one run at work at once, the first in its second step
\* (after its first exited), the second in its first.
C4_Witness ==
    \E r \in Runs :
        /\ Len(threads[r]) = 2
        /\ threads[r][1].started = <<1, 2>> /\ threads[r][1].running = {2}
        /\ threads[r][2].started = <<1>> /\ threads[r][2].running = {1}

\* Some thread of run r has spawned a step, or has one running.
SomeStepStarted(r) ==
    \E k \in ThreadIx(r) : threads[r][k].started # <<>> \/ threads[r][k].running # {}

\* Every job of run r has its thread, and every thread's start() has returned.
AllRunnersFinished(r) ==
    /\ Len(threads[r]) = Len(jobs[r])
    /\ \A k \in ThreadIx(r) :
           LET th == threads[r][k]
           IN  th.running = {} /\ (th.raised \/ Len(th.started) = Len(QueueOf(r, k)))

\* C5: no item step starts before the script-wide pre-action has exited, the
\* script-wide post-action starts only after every item runner has finished
\* (those that aborted included), and a script-wide action and an item step are
\* never running at the same time.
C5_Barrier ==
    \A r \in Runs :
        /\ pc[r] \in {"start", "lock_check", "lock_create", "queue", "pre", "pre_wait"}
               => threads[r] = <<>>
        /\ pc[r] \in {"post", "post_wait", "release", "done"} => AllRunnersFinished(r)
        /\ script_proc[r] # "none" => \A k \in ThreadIx(r) : threads[r][k].running = {}
        /\ script_proc[r] = "pre" => ~SomeStepStarted(r)
        /\ script_proc[r] = "post" => AllRunnersFinished(r)

\* C5 witness: a configured script-wide pre-action has run, two runners have run
\* all their steps, and the script-wide post-action is running.
C5_Witness ==
    \E r \in Runs :
        /\ Truthy(script_actions.preaction)
        /\ script_proc[r] = "post"
        /\ Len(threads[r]) = 2
        /\ \A k \in ThreadIx(r) : Len(threads[r][k].started) = 2

\* How many threads run r started for its i-th item.
RunnersOf(r, i) == Cardinality({k \in ThreadIx(r) : threads[r][k].item = i})

\* How many times the i-th item is in jobs.
TimesQueued(r, i) == Cardinality({n \in 1..Len(jobs[r]) : jobs[r][n] = i})

\* C6: an item whose enabled flag is false is never passed to queue building and
\* never gets a thread: its job queue stays empty, it is not in jobs and none of its
\* commands is started; an enabled item gets at most one thread, and exactly one
\* in a run that has started its threads.
C6_DisabledNeverRuns ==
    LET items == backup_items
    IN  \A r \in Runs : \A i \in DOMAIN job_queue[r] :
            IF items[i].enabled
            THEN /\ RunnersOf(r, i) <= 1
                 /\ TimesQueued(r, i) <= 1
                 /\ pc[r] \in {"pre", "pre_wait", "threads", "post", "post_wait", "release",
                               "done"} => TimesQueued(r, i) = 1
                 /\ pc[r] \in {"post", "post_wait", "release", "done"} => RunnersOf(r, i) = 1
            ELSE /\ job_queue[r][i] = <<>>
                 /\ TimesQueued(r, i) = 0
                 /\ RunnersOf(r, i) = 0

\* C6 witness: a run has ended normally whose configuration has a disabled item
\* with commands of its own, and an enabled item whose thread ran its steps.
C6_Witness ==
    \E r \in Runs : \E i, j \in DOMAIN job_queue[r] :
        /\ pc[r] = "done"
        /\ ~backup_items[i].enabled /\ Truthy(backup_items[i].pre_action)
        /\ backup_items[j].enabled
        /\ \E k \in ThreadIx(r) : threads[r][k].item = j /\ threads[r][k].started # <<>>

\* The configured hook, as a queue of one step, or none.
Hook(action) == IF action.none \/ action.v = <<>> THEN <<>> ELSE <<action.v>>

\* The command is the archiver's.
IsArchive(cmd) == cmd[1] = "tar" /\ (Len(cmd) = 1 \/ cmd[2] = " ")

\* C7: the job queue built for an item that lacks the source path or the
\* destination path holds no archive step: it is the configured pre-action (if any)
\* followed by the configured post-action (if any); the queue of an item with both
\* paths is pre-action?, one archive command, post-action? in that order.
C7_QueueShape ==
    LET items == backup_items
    IN  \A r \in Runs : \A n \in 1..Len(jobs[r]) :
            LET i == jobs[r][n]
                self == items[i]
                q == job_queue[r][i]
                pre == Hook(self.pre_action)
                post == Hook(self.post_action)
                lacks(path) == path.none \/ path.v = <<>>
            IN  IF lacks(self.src_path) \/ lacks(self.dest_path)
                THEN /\ q = pre \o post
                     /\ \A j \in 1..Len(q) : ~IsArchive(q[j])
                ELSE /\ Len(q) = Len(pre) + 1 + Len(post)
                     /\ SubSeq(q, 1, Len(pre)) = pre
                     /\ IsArchive(q[Len(pre) + 1])
                     /\ SubSeq(q, Len(pre) + 2, Len(q)) = post

\* C7 witness: a hook-only item with both hooks has a queue of exactly two steps,
\* and its thread has run the two.
C7_Witness ==
    \E r \in Runs : \E k \in ThreadIx(r) :
        LET self == backup_items[threads[r][k].item]
        IN  /\ self.src_path.none /\ self.dest_path.none
            /\ Truthy(self.pre_action) /\ Truthy(self.post_action)
            /\ Len(QueueOf(r, k)) = 2
            /\ threads[r][k].started = <<1, 2>>
            /\ threads[r][k].running = {}

\* The shell cannot locate the command: its only exit status is 127.
NotLocated(cmd) == ExitCodes(cmd) = {127}

\* The subprocess of position p of thread k has been spawned and has exited.
Exited(r, k, p) ==
    LET th == threads[r][k]
    IN  p \in 1..Len(th.started) /\ th.started[p] \notin th.running

\* The step at position p of thread k's queue could not be located or executed:
\* Popen raised for it, or the shell it spawned found no such command.
StepFailed(r, k, p) ==
    LET th == threads[r][k]
    IN  \/ th.raised /\ p = th.pos
        \/ Exited(r, k, p) /\ NotLocated(QueueOf(r, k)[th.started[p]])

\* C8: when a step of an item cannot be located or executed, the item's runner
\* starts none of the remaining steps of its queue and reports the failing step,
\* while a runner none of whose steps failed starts every step of its own queue.
C8_FailureEndsOnlyItsQueue ==
    \A r \in Runs : \A k \in ThreadIx(r) :
        LET th == threads[r][k]
            q == QueueOf(r, k)
        IN  /\ \A p \in 1..Len(q) :
                   StepFailed(r, k, p) =>
                       /\ \A j \in 1..Len(th.started) : th.started[j] <= p
                       /\ LogRecord("error", "Could not execute", q[p]) \in log[r]
            /\ (Finished(r, k) /\ \A p \in 1..Len(q) : ~StepFailed(r, k, p))
                   => Len(th.started) = Len(q)

\* C9: a step whose command ran and exited with a non-zero status does not stop its
\* item's queue: the thread is left as after a zero status (no handler has run, no
\* error is logged, the run goes on), and a thread that has returned has started
\* every step of its queue, whatever the exit statuses were.
C9_NonZeroExitGoesOn ==
    \A r \in Runs : \A k \in ThreadIx(r) :
        LET th == threads[r][k]
        IN  /\ (th.returncode # <<>> /\ th.returncode # <<0>>) =>
                   /\ ~th.raised
                   /\ pc[r] # "crashed"
                   /\ ~LoggedError(r, "Could not execute")
            /\ (sh_ok /\ pc[r] \in {"post", "post_wait", "release", "done"}) =>
                   Len(th.started) = Len(QueueOf(r, k))

\* C9 witness: a first step exited with status 1, and the thread started the next.
C9_Witness ==
    \E r \in Runs : \E k \in ThreadIx(r) :
        /\ threads[r][k].started = <<1, 2>>
        /\ ExitCodes(QueueOf(r, k)[1]) = {1}
        /\ threads[r][k].returncode = <<0>>

\* C10: every run that acquired the lock removes the marker at the end of the run,
\* on every path by which the run ends: at the step that ends a run that acquired
\* the lock, the marker is absent afterwards.
C10_LockRemovedAtEveryEnd ==
    [][\A r \in Runs :
           (Acquired(r) /\ exit_status[r] = <<>> /\ exit_status'[r] # <<>>) => ~lock_file']_vars

\* create_backup_items could not open config.json and logged it (lines 178-180).
ConfigNotLoaded(r) == LoggedError(r, "Err! could not load the config.json file")

\* Run r has taken no lock, built no job queue and run no command.
NoSideEffects(r) ==
    /\ ret[r] = "unset"
    /\ job_queue[r] = <<>>
    /\ jobs[r] = <<>>
    /\ threads[r] = <<>>
    /\ script_proc[r] = "none"

\* C11: a run whose configuration could not be loaded has logged the failure and
\* ends cleanly, through the 'no backup jobs' exit (sys.exit(), status 0) and not
\* through an unhandled error; it has taken no lock, built no job queue and run no
\* command.
C11_ConfigMissingExitsCleanly ==
    \A r \in Runs :
        ConfigNotLoaded(r) =>
            /\ pc[r] = "exited"
            /\ exit_status[r] = <<0>>
            /\ NoSideEffects(r)

\* The three error conditions of a run that has ended.
LockHeld(r) == Refused(r)

\* log.basicConfig raised PermissionError (lines 236-238): the only way a run ends
\* having logged nothing and having called create_lock_file not at all.
LogUnwritable(r) == pc[r] = "exited" /\ ret[r] = "unset" /\ log[r] = {}

\* C12: a run that has ended has a non-zero exit status if its configuration
\* could not be loaded, if the lock was already held or if the log destination was
\* unwritable, and has status zero if it ran to its end with no item configured.
C12_ExitStatus ==
    \A r \in Runs :
        exit_status[r] # <<>> =>
            /\ (ConfigNotLoaded(r) \/ LockHeld(r) \/ LogUnwritable(r)) => exit_status[r] # <<0>>
            /\ (pc[r] = "done" /\ backup_items = <<>>) => exit_status[r] = <<0>>

\* The item has both a source path and a destination path.
BothPaths(self) == Truthy(self.src_path) /\ Truthy(self.dest_path)

\* The option letters the configuration adds for the item.
ExtraLetters(self) ==
    IF Truthy(self.tar_opts) THEN {self.tar_opts.v[n] : n \in 1..Len(self.tar_opts.v)}
    ELSE {}

\* {dest}/{name}/full-{name}-{date}.tar.gz and {dest}/{name}/{name}-{date}.snar
FullArchiveName(self) ==
    self.dest_path.v \o <<"/">> \o self.name \o <<"/", "full-">> \o self.name
    \o <<"-">> \o date \o <<".tar.gz">>

NewStateName(self) ==
    self.dest_path.v \o <<"/">> \o self.name \o <<"/">> \o self.name
    \o <<"-">> \o date \o <<".snar">>

\* The queue q, built for the item, holds an archive command that tar decodes as:
\* create (c), gzip (z), absolute names (P), with the item's extra letters; write
\* the archive file full-...tar.gz; snapshot file ...snar; archive the source path.
FullCommandOk(self, q) ==
    \E j \in 1..Len(q) :
        /\ IsArchive(q[j])
        /\ LET d == TarDecoded(q[j])
           IN  /\ {"z", "c", "P"} \cup ExtraLetters(self) \subseteq TarLetters(d)
               /\ TarArchiveFiles(d) = {FullArchiveName(self)}
               /\ TarSnapshotFiles(d) = {NewStateName(self)}
               /\ TarMembers(d) = {self.src_path.v}

\* The step builds, in a full run, the job queue of run r's next item, an enabled
\* item with both paths.
BuildsFull(r) ==
    /\ pc[r] = "queue" /\ item_ix'[r] = item_ix[r] + 1
    /\ is_enabled(item(r)) /\ BothPaths(item(r))
    /\ full

\* C13 (as stated): in a full run, the archive command queued for every item with
\* both paths has the letters z, c and P, tar's archive file is
\* {dest}/{name}/full-{name}-{date}.tar.gz, its incremental-state file is
\* {dest}/{name}/{name}-{date}.snar and it archives the source path, whatever extra
\* option letters the configuration appends.
C13_FullCommandAnyLetters ==
    [][\A r \in Runs :
           BuildsFull(r) => FullCommandOk(item(r), job_queue'[r][item_ix[r] + 1])]_vars

\* C13 (amended): the same, for every item none of whose extra option letters
\* takes an argument.
C13_FullCommand ==
    [][\A r \in Runs :
           (BuildsFull(r) /\ ExtraLetters(item(r)) \cap TarArgLetters = {})
               => FullCommandOk(item(r), job_queue'[r][item_ix[r] + 1])]_vars

\* C13 witness: a full run has built its job queues, among them that of an item
\* with an extra option letter, whose archive command tar decodes as stated.
C13_Witness ==
    \E r \in Runs : \E n \in 1..Len(jobs[r]) :
        LET self == backup_items[jobs[r][n]]
        IN  /\ full
            /\ pc[r] = "pre"
            /\ BothPaths(self)
            /\ ExtraLetters(self) # {} /\ ExtraLetters(self) \cap TarArgLetters = {}
            /\ FullCommandOk(self, job_queue[r][jobs[r][n]])

\* {dest}/{name}/i.{name}-{date}.tar.gz
IncrementalArchiveName(self) ==
    self.dest_path.v \o <<"/">> \o self.name \o <<"/", "i.">> \o self.name
    \o <<"-">> \o date \o <<".tar.gz">>

\* The first *snar file find lists under {dest}/{name}.
DiscoveredState(self) == FindOutput(self.dest_path.v \o <<"/">> \o self.name, nsnar)[1]

\* C14: when, in an incremental run with a state file under {dest}/{name}, the
\* queue of an item with both paths is built, the archive command queued gives tar
\* the first discovered *snar file as its incremental-state file and
\* {dest}/{name}/i.{name}-{date}.tar.gz as its archive file; it names no new state
\* file, and the state file is never the archive tar writes.
C14_IncrementalCommand ==
    [][\A r \in Runs :
           (/\ pc[r] = "queue" /\ item_ix'[r] = item_ix[r] + 1
            /\ is_enabled(item(r)) /\ BothPaths(item(r))
            /\ ~full /\ nsnar > 0) =>
               LET self == item(r)
                   q == job_queue'[r][item_ix[r] + 1]
               IN  \E j \in 1..Len(q) :
                       /\ IsArchive(q[j])
                       /\ LET d == TarDecoded(q[j])
                          IN  /\ TarSnapshotFiles(d) = {DiscoveredState(self)}
                              /\ TarArchiveFiles(d) = {IncrementalArchiveName(self)}
                              /\ NewStateName(self) \notin TarSnapshotFiles(d)
                              /\ DiscoveredState(self) \notin TarArchiveFiles(d)]_vars

\* The positions of backup_list whose object lacks a mandatory key, and the others.
BadEntries == {e \in 1..Len(config.backup_list) :
                   ~{"name", "enabled"} \subseteq config.backup_list[e].keys}

GoodEntries == (1..Len(config.backup_list)) \ BadEntries

\* The positions in the item list of the items made of entry e (by its name).
ItemsOf(items, e) ==
    {i \in 1..Len(items) : items[i].name = config.backup_list[e].name}

\* Run r has loaded config.json and gone on.
Loaded(r) == pc[r] \notin {"start", "crashed"} \/ Acquired(r)

MinutesSeconds(text) == Len(text) = 4 /\ text[2] = " mins " /\ text[4] = " seconds"

WithHours(text) ==
    Len(text) = 6 /\ text[2] = " hrs " /\ text[4] = " mins " /\ text[6] = " seconds"

\* C16: at both places (a step's time in start, the script's time in __main__), an
\* elapsed time of s whole seconds is formatted with minutes and seconds only when
\* 0 <= s <= 3599, and with an hours component when s >= 3600.
C16_DurationFormat ==
    (time_string.site # "none" /\ time_taken % TicksPerSecond = 0) =>
        LET s == time_taken \div TicksPerSecond
        IN  /\ (0 <= s /\ s <= 3599) => MinutesSeconds(time_string.text)
            /\ s >= 3600 => WithHours(time_string.text)

\* C16 witness: 3599 seconds formatted for a step, "59 mins 59 seconds".
C16_Witness ==
    /\ time_taken = 3599 * TicksPerSecond
    /\ time_string = [site |-> "start", text |-> <<"59", " mins ", "59", " seconds">>]

\* Run r is building job queues, running a script-wide action, or running threads.
Working(r) == pc[r] \in {"queue", "pre", "pre_wait", "threads", "post", "post_wait"}

\* C17: while a run is building a job queue, running a script-wide action or
\* running its threads, the lock marker exists and it is this run that created it:
\* the run's one create_lock_file, before any of that work, made a marker that was
\* not there, no step takes the marker away while the run works, and the run's one
\* release_lock_file comes after all of it.
C17_LockCoversWork ==
    [][\A r \in Runs :
           /\ Working(r)' => (lock_file' /\ Acquired(r)')
           /\ Leaves(r, "lock_create") => (~lock_file /\ ~Working(r) /\ threads[r] = <<>>)
           /\ Leaves(r, "release") => (AllRunnersFinished(r) /\ ~Working(r)')
           /\ Acquired(r) => pc'[r] \notin {"lock_check", "lock_create"}]_vars

\* The script-wide pre-action is configured and cannot be executed: there is no
\* shell to run it, or the shell finds no such command.
PreActionFails ==
    /\ Truthy(script_actions.preaction)
    /\ ~sh_ok \/ NotLocated(script_actions.preaction.v)

\* Run r went on after the script-wide pre-action as a run whose pre-action
\* succeeded does: one thread per enabled item, all joined before the post-action,
\* and a normal end (status 0) through release_lock_file.
WentOn(r) ==
    /\ pc[r] # "crashed"
    /\ pc[r] \in {"post", "post_wait", "release", "done"} =>
           /\ AllRunnersFinished(r)
           /\ \A i \in 1..Len(backup_items) : backup_items[i].enabled => RunnersOf(r, i) = 1
    /\ pc[r] = "done" => exit_status[r] = <<0>>

\* C18: a run whose configured script-wide pre-action could not be executed has
\* logged the failure once it is past the pre-action, and goes on: every enabled
\* item's thread is started, all are joined, the script-wide post-action is
\* reached and the run ends through the release of the lock.
C18_PreActionFailureLogged ==
    \A r \in Runs :
        (PreActionFails /\ pc[r] \in {"threads", "post", "post_wait", "release", "done"}) =>
            /\ LoggedError(r, "Failed to run the pre_action_script command")
            /\ WentOn(r)

\* A command of one of run r's items has been spawned and has not exited.
CommandRunning(r) == \E k \in ThreadIx(r) : threads[r][k].running # {}

\* C19: under fair scheduling and with commands that all exit, every run that
\* acquired the lock gets all its threads finished, reaches the script-wide
\* post-action and ends through release_lock_file, which leaves no marker;
\* conversely, while a command of one of its items has not exited the run has not
\* started the post-action and the marker is still there.
C19_Termination ==
    /\ \A r \in Runs : Acquired(r) ~> (pc[r] = "done" /\ AllRunnersFinished(r))
    /\ [](\A r \in Runs :
             CommandRunning(r) =>
                 /\ pc[r] = "threads"
                 /\ script_proc[r] = "none"
                 /\ lock_file)

\* A step starts a command of run r: a script-wide action, or a step of a thread.
CommandStarts(r) ==
    \/ script_proc[r] = "none" /\ script_proc'[r] # "none"
    \/ \E k \in 1..Len(threads'[r]) :
           Len(threads'[r][k].started) >
               (IF k \in ThreadIx(r) THEN Len(threads[r][k].started) ELSE 0)

\* The loop of line 258 has taken every item, and every enabled item is queued.
QueuesBuilt(r) ==
    /\ item_ix[r] = Len(backup_items)
    /\ \A i \in 1..Len(backup_items) : backup_items[i].enabled => TimesQueued(r, i) = 1

\* C20: a run starts a command (the script-wide pre-action, any step of any item)
\* only when the job queue of every enabled item has been built; a job queue changes
\* only in the run's queue building, before any of its commands has started, and no
\* later step changes one, whatever the commands do to the state files: the archive
\* command that is run is the one queued, with the state file found at that time.
C20_QueuesFixedBeforeCommands ==
    [][\A r \in Runs :
           /\ CommandStarts(r) =>
                  (QueuesBuilt(r) /\ pc[r] \in {"pre", "threads", "post"})
           /\ pc[r] \notin {"start", "queue"} => job_queue'[r] = job_queue[r]
           /\ job_queue'[r] # job_queue[r] => (threads[r] = <<>> /\ script_proc[r] = "none")
           /\ (nsnar' # nsnar /\ CommandRunning(r)) => job_queue'[r] = job_queue[r]]_vars

\* C20 witness: in an incremental run the state file found at queue building has
\* since been removed by a pre-action, and a thread has started the archive command
\* queued, which still names that file.
C20_Witness ==
    \E r \in Runs : \E k \in ThreadIx(r) :
        LET th == threads[r][k]
            self == backup_items[th.item]
        IN  /\ ~full /\ nsnar = 0
            /\ BothPaths(self)
            /\ th.started = <<1, 2>>
            /\ ExitCodes(QueueOf(r, k)[1]) = {0}
            /\ IsArchive(QueueOf(r, k)[2])
            /\ LET d == TarDecoded(QueueOf(r, k)[2])
               IN  FindOutput(self.dest_path.v \o <<"/">> \o self.name, 1)[1]
                       \in TarArchiveFiles(d) \cup TarSnapshotFiles(d)

====
